---- MODULE Spec2Model ----
(***************************************************************************)
(* A model of CommandLineParser (command_line_parser.hpp): the             *)
(* registration API, Parse, operator[] and UsageInfo.                      *)
(*                                                                         *)
(* A std::string is a sequence of one-character strings, so that the       *)
(* prefix tests, VerifyName and std::stoi are computed character by        *)
(* character.  A std::map is a function whose DOMAIN is its key set.       *)
(* Notes (the text shown by HelpInfo) take no part in any modelled         *)
(* decision and are left out of Argument and Option.                       *)
(***************************************************************************)
EXTENDS Integers, Sequences, FiniteSets, TLC

VARIABLES
    have_argument_pack_,            \* bool have_argument_pack_
    all_arguments_,                 \* std::vector<Argument>
    all_options_,                   \* std::map<std::string, Option>
    short_name_to_name_of_option_,  \* std::map<std::string, std::string>
    cur_values_,                    \* std::map<std::string, Value>
    app_path_,                      \* std::string app_path_
    proc,                           \* "running", "exit(0)", "exit(-1)" or "crash"
    diag,                           \* which diagnostic the last call wrote
    last_op,                        \* the member function called last
    ret,                            \* what the last call returned
    argv,                           \* the argv of the last Parse call
    parses,                         \* the number of Parse calls made
    parsed_arguments,               \* cur_arguments as the last Parse left it
    parsed_options,                 \* cur_options as the last Parse left it
    captures,                       \* the option starts the last Parse matched
    ever_bound,                     \* every key cur_values_ has ever held
    usage_seen,                     \* the UsageInfo() calls made, in order
    call                            \* the arguments of the last registration call

schema == <<have_argument_pack_, all_arguments_, all_options_,
            short_name_to_name_of_option_>>

vars == <<have_argument_pack_, all_arguments_, all_options_,
          short_name_to_name_of_option_, cur_values_, app_path_,
          proc, diag, last_op, ret, argv, parses, parsed_arguments,
          parsed_options, captures, ever_bound, usage_seen, call>>

\* what only Parse writes
parse_state == <<cur_values_, app_path_, proc, argv, parses,
                 parsed_arguments, parsed_options, captures, ever_bound>>

----------------------------------------------------------------------------
(* Characters and strings *)

Lower == {"a","b","c","d","e","f","g","h","i","j","k","l","m",
          "n","o","p","q","r","s","t","u","v","w","x","y","z"}
Upper == {"A","B","C","D","E","F","G","H","I","J","K","L","M",
          "N","O","P","Q","R","S","T","U","V","W","X","Y","Z"}
Digit == {"0","1","2","3","4","5","6","7","8","9"}
Space == {" "}

isalpha(c) == c \in Lower \cup Upper
isalnum(c) == c \in Lower \cup Upper \cup Digit

EmptyString == << >>
EmptyMap == << >>

substr(s, pos) == [k \in 1..(Len(s) - pos) |-> s[k + pos]]

Put(m, k, v) == [x \in DOMAIN m \cup {k} |-> IF x = k THEN v ELSE m[x]]

\* ASCII order of the characters the model uses (std::map iterates its
\* keys in std::string's lexicographic order).
Ascii == <<" ", "+", "-",
           "0","1","2","3","4","5","6","7","8","9",
           "A","B","C","D","E","F","G","H","I","J","K","L","M",
           "N","O","P","Q","R","S","T","U","V","W","X","Y","Z",
           "_",
           "a","b","c","d","e","f","g","h","i","j","k","l","m",
           "n","o","p","q","r","s","t","u","v","w","x","y","z">>

Code(c) == CHOOSE k \in 1..Len(Ascii) : Ascii[k] = c

RECURSIVE StrLess(_, _)
StrLess(s, t) ==
    IF t = EmptyString THEN FALSE
    ELSE IF s = EmptyString THEN TRUE
    ELSE IF s[1] = t[1] THEN StrLess(Tail(s), Tail(t))
    ELSE Code(s[1]) < Code(t[1])

\* the keys of a std::map in iteration order
RECURSIVE KeysInOrder(_)
KeysInOrder(S) ==
    IF S = {} THEN << >>
    ELSE LET first == CHOOSE k \in S : \A o \in S \ {k} : StrLess(k, o)
         IN <<first>> \o KeysInOrder(S \ {first})

----------------------------------------------------------------------------
(* VerifyName *)

VerifyName(name) ==
    IF name = EmptyString \/ ~isalpha(name[1]) THEN FALSE
    ELSE \A k \in 1..Len(name) :
            ~(~isalnum(name[k]) /\ ~isalpha(name[k]) /\ name[k] # "_")

----------------------------------------------------------------------------
(* std::stoi: optional white space, optional sign, at least one digit;     *)
(* the digits stop at the first other character; throws when there is no   *)
(* digit or the number does not fit an int.                                *)

IntMaxDiv10 == 214748364
IntMaxMod10 == 7

RECURSIVE SkipSpace(_)
SkipSpace(s) ==
    IF s # EmptyString /\ s[1] \in Space THEN SkipSpace(Tail(s)) ELSE s

DigitVal(c) == Code(c) - Code("0")

\* the digit run at the front of s fits: acc is the value read so far
RECURSIVE DigitsFit(_, _, _)
DigitsFit(s, acc, neg) ==
    IF s = EmptyString \/ s[1] \notin Digit THEN TRUE
    ELSE IF acc > IntMaxDiv10 THEN FALSE
    ELSE IF acc = IntMaxDiv10
            /\ DigitVal(s[1]) > IntMaxMod10 + (IF neg THEN 1 ELSE 0)
         THEN FALSE
    ELSE IF acc = IntMaxDiv10
         THEN Len(s) = 1 \/ s[2] \notin Digit
    ELSE DigitsFit(Tail(s), acc * 10 + DigitVal(s[1]), neg)

\* TRUE iff std::stoi(str) returns, FALSE iff it throws
StoiOk(str) ==
    LET t == SkipSpace(str)
        neg == t # EmptyString /\ t[1] = "-"
        u == IF t # EmptyString /\ t[1] \in {"+", "-"} THEN Tail(t) ELSE t
    IN /\ u # EmptyString
       /\ u[1] \in Digit
       /\ DigitsFit(u, 0, neg)

----------------------------------------------------------------------------
(* Value *)

\* Value()
InvalidValue == [valid_ |-> FALSE, value_ |-> EmptyString, values_ |-> << >>]

\* explicit Value(std::string str_value)
SingleValue(str_value) ==
    [valid_ |-> str_value # EmptyString, value_ |-> str_value, values_ |-> << >>]

\* explicit Value(std::vector<std::string> str_values)
MultiValue(str_values) ==
    [valid_ |-> TRUE,
     value_ |-> IF str_values = << >> THEN EmptyString ELSE str_values[1],
     values_ |-> str_values]

----------------------------------------------------------------------------
(* Construction and the registration API *)

\* what the last call returned: nothing (the process exited, or no call was
\* made yet), a bool, a Value (with the name that was looked up) or a text
NoReturn == [kind |-> "none"]
RetBool(b) == [kind |-> "bool", b |-> b]
RetValue(name, v) == [kind |-> "Value", name |-> name, v |-> v]
RetText(t) == [kind |-> "text", t |-> t]

\* the arguments a registration call was made with; NoCall after any other
\* call.  AddArgument and AddArgumentPack take no value_count or short_name.
NoCall == [name |-> << >>, value_count |-> 0, short_name |-> << >>,
           only_number |-> FALSE]
Called(name, value_count, short_name, only_number) ==
    [name |-> name, value_count |-> value_count, short_name |-> short_name,
     only_number |-> only_number]

MaxNameSize == 32
MinOptionNameSize == 3
MaxShortNameSize == 16
MinShortNameSize == 2

Init ==
    /\ have_argument_pack_ = FALSE
    /\ all_arguments_ = << >>
    /\ all_options_ = EmptyMap
    /\ short_name_to_name_of_option_ = EmptyMap
    /\ cur_values_ = EmptyMap
    /\ app_path_ = EmptyString
    /\ proc = "running"
    /\ diag = "none"
    /\ last_op = "CommandLineParser"
    /\ ret = NoReturn
    /\ argv = << >>
    /\ parses = 0
    /\ parsed_arguments = << >>
    /\ parsed_options = EmptyMap
    /\ captures = << >>
    /\ ever_bound = {}
    /\ usage_seen = << >>
    /\ call = NoCall

ArgumentNames == {all_arguments_[k].name : k \in 1..Len(all_arguments_)}

\* BadArgumentName without the limit on the size of the name
BadArgumentNameAnySize(name) ==
    name = EmptyString \/ ~VerifyName(name)

\* the name test shared by AddArgument and AddArgumentPack
BadArgumentName(name) ==
    name = EmptyString \/ Len(name) > MaxNameSize \/ ~VerifyName(name)

\* what a registration call leaves alone besides the Schema
RegistrationFrame(op, result, message) ==
    /\ last_op' = op
    /\ ret' = RetBool(result)
    /\ diag' = message
    /\ UNCHANGED <<parse_state, usage_seen>>

AddArgument(name, only_number) ==
    /\ proc = "running"
    /\ call' = Called(name, 0, EmptyString, only_number)
    /\ IF BadArgumentName(name)
       THEN /\ RegistrationFrame("AddArgument", FALSE, "AddArgumentFailed: name")
            /\ UNCHANGED schema
       ELSE IF name \in ArgumentNames
       THEN /\ RegistrationFrame("AddArgument", FALSE, "AddArgumentFailed: exist")
            /\ UNCHANGED schema
       ELSE /\ all_arguments_' = Append(all_arguments_,
                   [name |-> name, only_number |-> only_number,
                    is_package |-> FALSE])
            /\ RegistrationFrame("AddArgument", TRUE, "none")
            /\ UNCHANGED <<have_argument_pack_, all_options_,
                           short_name_to_name_of_option_>>

AddArgumentPack(name, only_number) ==
    /\ proc = "running"
    /\ call' = Called(name, 0, EmptyString, only_number)
    /\ IF have_argument_pack_
       THEN /\ RegistrationFrame("AddArgumentPack", FALSE,
                                 "AddArgumentPackFailed: already added")
            /\ UNCHANGED schema
       ELSE IF BadArgumentName(name)
       THEN /\ RegistrationFrame("AddArgumentPack", FALSE,
                                 "AddArgumentPackFailed: name")
            /\ UNCHANGED schema
       ELSE IF name \in ArgumentNames
       THEN /\ RegistrationFrame("AddArgumentPack", FALSE,
                                 "AddArgumentPackFailed: exist")
            /\ UNCHANGED schema
       ELSE /\ all_arguments_' = Append(all_arguments_,
                   [name |-> name, only_number |-> only_number,
                    is_package |-> TRUE])
            /\ have_argument_pack_' = TRUE
            /\ RegistrationFrame("AddArgumentPack", TRUE, "none")
            /\ UNCHANGED <<all_options_, short_name_to_name_of_option_>>

BadOptionName(name) ==
    \/ Len(name) < MinOptionNameSize
    \/ Len(name) > MaxNameSize
    \/ name[1] # "-"
    \/ name[2] # "-"
    \/ ~VerifyName(substr(name, 2))

\* ShortNameTaken as a test that never finds the alias
ShortNameTakenNever(short_name) == FALSE

\* short_name_to_name_of_option_.count(short_name)
ShortNameTaken(short_name) ==
    short_name \in DOMAIN short_name_to_name_of_option_

\* BadShortName testing the whole short name as a name, "-" not required
BadShortNameWholeName(short_name) ==
    \/ Len(short_name) < MinShortNameSize
    \/ Len(short_name) > MaxShortNameSize
    \/ ~VerifyName(short_name)

BadShortName(short_name) ==
    \/ Len(short_name) < MinShortNameSize
    \/ Len(short_name) > MaxShortNameSize
    \/ short_name[1] # "-"
    \/ ~VerifyName(substr(short_name, 1))

AddOption(name, value_count, short_name, only_number) ==
    /\ proc = "running"
    /\ call' = Called(name, value_count, short_name, only_number)
    /\ IF name \in DOMAIN all_options_
       THEN /\ RegistrationFrame("AddOption", FALSE, "AddOptionFailed: exist")
            /\ UNCHANGED schema
       ELSE IF BadOptionName(name)
       THEN /\ RegistrationFrame("AddOption", FALSE, "AddOptionFailed: name")
            /\ UNCHANGED schema
       ELSE IF short_name # EmptyString /\ ShortNameTaken(short_name)
       THEN /\ RegistrationFrame("AddOption", FALSE,
                                 "AddOptionFailed: short name exist")
            /\ UNCHANGED schema
       ELSE IF short_name # EmptyString /\ BadShortName(short_name)
       THEN /\ RegistrationFrame("AddOption", FALSE,
                                 "AddOptionFailed: short name")
            /\ UNCHANGED schema
       ELSE /\ all_options_' = Put(all_options_, name,
                   [name |-> name, short_name |-> short_name,
                    value_count |-> value_count, only_number |-> only_number,
                    index |-> Cardinality(DOMAIN all_options_)])
            /\ short_name_to_name_of_option_' =
                   IF short_name # EmptyString
                   THEN Put(short_name_to_name_of_option_, short_name, name)
                   ELSE short_name_to_name_of_option_
            /\ RegistrationFrame("AddOption", TRUE, "none")
            /\ UNCHANGED <<have_argument_pack_, all_arguments_>>

----------------------------------------------------------------------------
(* Parse: the scan of args (argv without the program path) *)

HelpName == <<"-", "-", "h", "e", "l", "p">>
UsageName == <<"-", "-", "u", "s", "a", "g", "e">>

\* OptionNameOf without the alias table: a short name starts no option
OptionNameOfLongOnly(str) ==
    IF str \in DOMAIN all_options_ THEN str ELSE EmptyString

\* OptionNameOf taking every token that begins with "-" for an option
OptionNameOfAnyDash(str) ==
    IF str # EmptyString /\ str[1] = "-" THEN str ELSE EmptyString

\* the option a token starts: its long name, or empty when it starts none
OptionNameOf(str) ==
    IF str \in DOMAIN all_options_ THEN str
    ELSE IF str \in DOMAIN short_name_to_name_of_option_
    THEN short_name_to_name_of_option_[str]
    ELSE EmptyString

\* a value-initialized Option, what std::map::operator[] inserts
DefaultOption ==
    [name |-> EmptyString, short_name |-> EmptyString, value_count |-> 0,
     only_number |-> FALSE, index |-> 0]

\* m[key] for every key of keys, in a std::map m: operator[] inserts a
\* value-initialized element under each key m does not hold
Subscript(m, keys, default) ==
    [k \in DOMAIN m \cup keys |-> IF k \in DOMAIN m THEN m[k] ELSE default]

\* what all_options_[option_name] reads
OptionAt(option_name) ==
    Subscript(all_options_, {option_name}, DefaultOption)[option_name]

\* cur_options[option_name];  (creates the entry when there is none)
Touch(cur_options, option_name) ==
    IF option_name \in DOMAIN cur_options THEN cur_options
    ELSE Put(cur_options, option_name, << >>)

\* the inner loop over j: i is the index of the token read last
RECURSIVE Capture(_, _, _, _, _)
Capture(args, i, j, option_name, cur_options) ==
    IF j >= OptionAt(option_name).value_count
    THEN [err |-> "none", i |-> i, cur_options |-> cur_options]
    ELSE IF i + 1 <= Len(args)
    THEN IF OptionAt(option_name).only_number /\ ~StoiOk(args[i + 1])
         THEN [err |-> "option value require number", i |-> i + 1,
               cur_options |-> cur_options]
         ELSE Capture(args, i + 1, j + 1, option_name,
                      Put(cur_options, option_name,
                          Append(cur_options[option_name], args[i + 1])))
    ELSE [err |-> "option value count", i |-> i + 1,
          cur_options |-> cur_options]

\* the loop over i.  log records, for each option start matched, where it
\* was, the option and the tokens the inner loop read for it.
RECURSIVE Scan(_, _, _, _, _)
Scan(args, i, arguments, options, log) ==
    IF i > Len(args)
    THEN [err |-> "none", cur_arguments |-> arguments,
          cur_options |-> options, captures |-> log]
    ELSE LET str == args[i]
             option_name == OptionNameOf(str)
         IN IF option_name = EmptyString
            THEN Scan(args, i + 1, Append(arguments, str), options, log)
            ELSE LET c == Capture(args, i, 0, option_name,
                                  Touch(options, option_name))
                     entry == [at |-> i, option |-> option_name,
                               values |-> SubSeq(args, i + 1,
                                   IF c.i > Len(args) THEN Len(args) ELSE c.i)]
                 IN IF c.err # "none"
                    THEN [err |-> c.err, cur_arguments |-> arguments,
                          cur_options |-> c.cur_options,
                          captures |-> Append(log, entry)]
                    ELSE Scan(args, c.i + 1, arguments, c.cur_options,
                              Append(log, entry))

----------------------------------------------------------------------------
(* Parse: the checks of the positional values *)

\* try { std::stoi(cur_arguments[j]); } catch ...: "ok", "throw" or "crash".
\* j is 1-based.  Reading cur_arguments past its end is undefined: ub names
\* what the read did ("number": it read something stoi accepts,
\* "not_number": something stoi rejects, "crash": the process died);
\* "probe" only reports that the read happens.
NumberCheck(cur_arguments, j, ub) ==
    IF j \in 1..Len(cur_arguments)
    THEN IF StoiOk(cur_arguments[j]) THEN "ok" ELSE "throw"
    ELSE CASE ub = "number" -> "ok"
           [] ub = "not_number" -> "throw"
           [] ub = "crash" -> "crash"
           [] OTHER -> "probe"

\* cur_arguments.size() < all_arguments_.size() - 1
TooFewForPack(cur_arguments) == Len(cur_arguments) < Len(all_arguments_) - 1

\* cur_arguments.size() - all_arguments_.size() + 1
PackValueCount(cur_arguments) == Len(cur_arguments) - Len(all_arguments_) + 1

\* PackIsEmpty as a test that an unsigned count can never pass
PackIsEmptyNever(pack_value_count) == pack_value_count < 0

\* pack_value_count <= 0
PackIsEmpty(pack_value_count) == pack_value_count <= 0

\* the loop over k of the pack's values; j is the index of the value to check
RECURSIVE CheckPackRun(_, _, _, _, _, _)
CheckPackRun(cur_arguments, i, j, k, pack_value_count, ub) ==
    IF k >= pack_value_count THEN "none"
    ELSE LET n == IF all_arguments_[i].only_number
                  THEN NumberCheck(cur_arguments, j, ub) ELSE "ok"
         IN IF n = "throw" THEN "argument pack value require number"
            ELSE IF n # "ok" THEN n
            ELSE CheckPackRun(cur_arguments, i, j + 1, k + 1,
                              pack_value_count, ub)

\* where j stands after the pack's values and the ++j of the for statement
AfterPack(j, pack_value_count) == j + pack_value_count + 1

\* for (size_t i = 0, j = 0; i < all_arguments_.size(); ++i, ++j)
RECURSIVE CheckWithPack(_, _, _, _, _)
CheckWithPack(cur_arguments, i, j, pack_value_count, ub) ==
    IF i > Len(all_arguments_) THEN "none"
    ELSE IF all_arguments_[i].is_package
    THEN IF PackIsEmpty(pack_value_count)
         THEN "argument pack value count at least: 1"
         ELSE LET r == CheckPackRun(cur_arguments, i, j, 0,
                                    pack_value_count, ub)
              IN IF r # "none" THEN r
                 ELSE CheckWithPack(cur_arguments, i + 1,
                                    AfterPack(j, pack_value_count),
                                    pack_value_count, ub)
    ELSE LET n == IF all_arguments_[i].only_number
                  THEN NumberCheck(cur_arguments, j, ub) ELSE "ok"
         IN IF n = "throw" THEN "argument value require number"
            ELSE IF n # "ok" THEN n
            ELSE CheckWithPack(cur_arguments, i + 1, j + 1,
                               pack_value_count, ub)

\* cur_arguments.size() != all_arguments_.size()
WrongCount(cur_arguments) == Len(cur_arguments) # Len(all_arguments_)

RECURSIVE CheckNoPack(_, _, _)
CheckNoPack(cur_arguments, i, ub) ==
    IF i > Len(all_arguments_) THEN "none"
    ELSE LET n == IF all_arguments_[i].only_number
                  THEN NumberCheck(cur_arguments, i, ub) ELSE "ok"
         IN IF n = "throw" THEN "argument value require number"
            ELSE IF n # "ok" THEN n
            ELSE CheckNoPack(cur_arguments, i + 1, ub)

\* lines 396-466: "none", or the diagnostic of the fatal exit
CheckArguments(cur_arguments, ub) ==
    IF have_argument_pack_
    THEN IF TooFewForPack(cur_arguments)
         THEN "argument count at least"
         ELSE CheckWithPack(cur_arguments, 1, 1,
                            PackValueCount(cur_arguments), ub)
    ELSE IF WrongCount(cur_arguments)
         THEN "argument count must be"
         ELSE CheckNoPack(cur_arguments, 1, ub)

----------------------------------------------------------------------------
(* Parse: binding the values *)

\* BindWithPack with the pack taken for one slot: j moves on by one after it
RECURSIVE BindWithPackOneSlot(_, _, _, _, _)
BindWithPackOneSlot(cur_arguments, i, j, pack_value_count, store) ==
    IF i > Len(all_arguments_) THEN store
    ELSE IF all_arguments_[i].is_package
    THEN BindWithPackOneSlot(cur_arguments, i + 1, j + 1,
             pack_value_count,
             Put(store, all_arguments_[i].name,
                 MultiValue(SubSeq(cur_arguments, j,
                                   j + pack_value_count - 1))))
    ELSE BindWithPackOneSlot(cur_arguments, i + 1, j + 1, pack_value_count,
             Put(store, all_arguments_[i].name,
                 SingleValue(cur_arguments[j])))

\* the pack branch: for (size_t i = 0, j = 0; ...; ++i), j is 1-based here
RECURSIVE BindWithPack(_, _, _, _, _)
BindWithPack(cur_arguments, i, j, pack_value_count, store) ==
    IF i > Len(all_arguments_) THEN store
    ELSE IF all_arguments_[i].is_package
    THEN BindWithPack(cur_arguments, i + 1, j + pack_value_count,
             pack_value_count,
             Put(store, all_arguments_[i].name,
                 MultiValue(SubSeq(cur_arguments, j,
                                   j + pack_value_count - 1))))
    ELSE BindWithPack(cur_arguments, i + 1, j + 1, pack_value_count,
             Put(store, all_arguments_[i].name,
                 SingleValue(cur_arguments[j])))

RECURSIVE BindNoPack(_, _, _)
BindNoPack(cur_arguments, i, store) ==
    IF i > Len(cur_arguments) THEN store
    ELSE BindNoPack(cur_arguments, i + 1,
             Put(store, all_arguments_[i].name,
                 SingleValue(cur_arguments[i])))

\* lines 468-487
BindArguments(cur_arguments, store) ==
    IF have_argument_pack_
    THEN BindWithPack(cur_arguments, 1, 1, PackValueCount(cur_arguments),
                      store)
    ELSE BindNoPack(cur_arguments, 1, store)

\* BindOption without the binding under the short name
BindOptionNoAlias(option_name, values, store) ==
    Put(store, option_name, MultiValue(values))

\* the body of the loop over cur_options
BindOption(option_name, values, store) ==
    LET s1 == Put(store, option_name, MultiValue(values))
        short_name == OptionAt(option_name).short_name
    IN IF short_name # EmptyString
       THEN Put(s1, short_name, MultiValue(values))
       ELSE s1

\* for (const auto &option : cur_options): keys is what is left to visit
RECURSIVE BindOptions(_, _, _)
BindOptions(cur_options, keys, store) ==
    IF keys = << >> THEN store
    ELSE BindOptions(cur_options, Tail(keys),
                     BindOption(keys[1], cur_options[keys[1]], store))

----------------------------------------------------------------------------
(* Parse *)

\* ClearValues that leaves the store as it was
ClearValuesKeeps(values) == values

\* cur_values_.clear()
ClearValues(values) == EmptyMap

\* HelpShortcut without the test for a registered "--help"
HelpShortcutUnshadowed(av) == Len(av) = 2 /\ HelpName = av[2]

\* argc == 2 && !all_options_.count("--help") && "--help" == argv[1]
HelpShortcut(av) ==
    Len(av) = 2 /\ HelpName \notin DOMAIN all_options_ /\ HelpName = av[2]

\* argc == 2 && !all_options_.count("--usage") && "--usage" == argv[1]
UsageShortcut(av) ==
    Len(av) = 2 /\ UsageName \notin DOMAIN all_options_ /\ UsageName = av[2]

NoScan == [err |-> "none", cur_arguments |-> << >>,
           cur_options |-> EmptyMap, captures |-> << >>]

Exit(status, message, path, values, scan) ==
    [proc |-> status, diag |-> message, app_path |-> path,
     values |-> values, ret |-> NoReturn, scan |-> scan]

\* Parse(argc, argv) with av = argv[0..argc-1]; ub as in NumberCheck
ParseOutcome(av, ub) ==
    LET cleared == ClearValues(cur_values_)
    IN IF Len(av) < 1
       THEN Exit("exit(-1)", "argument count must be > 0", EmptyString,
                 cleared, NoScan)
       ELSE IF HelpShortcut(av)
       THEN Exit("exit(0)", "HelpInfo", av[1], cleared, NoScan)
       ELSE IF UsageShortcut(av)
       THEN Exit("exit(0)", "UsageInfo", av[1], cleared, NoScan)
       ELSE LET s == Scan(Tail(av), 1, << >>, EmptyMap, << >>)
            IN IF s.err # "none"
               THEN Exit("exit(-1)", s.err, av[1], cleared, s)
               ELSE LET c == CheckArguments(s.cur_arguments, ub)
                    IN IF c \in {"crash", "probe"}
                       THEN Exit(c, "none", av[1], cleared, s)
                       ELSE IF c # "none"
                       THEN Exit("exit(-1)", c, av[1], cleared, s)
                       ELSE [proc |-> "running", diag |-> "none",
                             app_path |-> av[1],
                             values |->
                                 BindOptions(s.cur_options,
                                     KeysInOrder(DOMAIN s.cur_options),
                                     BindArguments(s.cur_arguments, cleared)),
                             ret |-> RetBool(TRUE), scan |-> s]

\* every outcome the call can have: one, unless it reads past the end of
\* cur_arguments
ParseOutcomes(av) ==
    LET r == ParseOutcome(av, "probe")
    IN IF r.proc = "probe"
       THEN {ParseOutcome(av, ub) : ub \in {"number", "not_number", "crash"}}
       ELSE {r}

\* the keys Parse subscripts all_options_ with: the option of every start
\* the scan matched and, when it gets to the binding, every key of
\* cur_options
OptionsSubscripted(scan, bound) ==
    {scan.captures[k].option : k \in 1..Len(scan.captures)}
    \cup (IF bound THEN DOMAIN scan.cur_options ELSE {})

\* the keys Parse subscripts short_name_to_name_of_option_ with: the tokens
\* matched as a start that all_options_ does not hold
AliasesSubscripted(av, scan) ==
    {av[scan.captures[k].at + 1] :
        k \in {n \in 1..Len(scan.captures) :
                  av[scan.captures[n].at + 1] \notin DOMAIN all_options_}}

MaxParses == 2

Parse(av) ==
    /\ proc = "running"
    /\ parses < MaxParses
    /\ \E r \in ParseOutcomes(av) :
          /\ cur_values_' = r.values
          /\ app_path_' = r.app_path
          /\ proc' = r.proc
          /\ diag' = r.diag
          /\ ret' = r.ret
          /\ parsed_arguments' = r.scan.cur_arguments
          /\ parsed_options' = r.scan.cur_options
          /\ captures' = r.scan.captures
          /\ ever_bound' = ever_bound \cup DOMAIN r.values
          /\ all_options_' =
                 Subscript(all_options_,
                           OptionsSubscripted(r.scan, r.proc = "running"),
                           DefaultOption)
          /\ short_name_to_name_of_option_' =
                 Subscript(short_name_to_name_of_option_,
                           AliasesSubscripted(av, r.scan), EmptyString)
    /\ last_op' = "Parse"
    /\ argv' = av
    /\ parses' = parses + 1
    /\ call' = NoCall
    /\ UNCHANGED <<have_argument_pack_, all_arguments_, usage_seen>>

----------------------------------------------------------------------------
(* operator[] and UsageInfo *)

\* cur_values_.count(name) ? cur_values_.at(name) : Value()
ValueOf(name) ==
    IF name \in DOMAIN cur_values_ THEN cur_values_[name] ELSE InvalidValue

Lookup(name) ==
    /\ proc = "running"
    /\ ret' = RetValue(name, ValueOf(name))
    /\ last_op' = "operator[]"
    /\ diag' = "none"
    /\ call' = NoCall
    /\ UNCHANGED <<schema, parse_state, usage_seen>>

DigitChar(d) == Ascii[Code("0") + d]

\* std::to_string / operator<< of a size_t
RECURSIVE ToDecimal(_)
ToDecimal(n) ==
    IF n < 10 THEN <<DigitChar(n)>>
    ELSE ToDecimal(n \div 10) \o <<DigitChar(n % 10)>>

\* all_options sorted by index
RECURSIVE SortByIndex(_)
SortByIndex(names) ==
    IF names = {} THEN << >>
    ELSE LET first == CHOOSE n \in names : \A o \in names :
                          all_options_[n].index <= all_options_[o].index
         IN <<all_options_[first]>> \o SortByIndex(names \ {first})

ArgumentText(argument) ==
    <<" <">> \o argument.name
    \o (IF argument.is_package THEN <<"...">> ELSE << >>)
    \o (IF argument.only_number THEN <<": NUM">> ELSE << >>)
    \o <<">">>

RECURSIVE ArgumentsText(_)
ArgumentsText(arguments) ==
    IF arguments = << >> THEN << >>
    ELSE ArgumentText(arguments[1]) \o ArgumentsText(Tail(arguments))

RECURSIVE ValueSlots(_, _)
ValueSlots(option, i) ==
    IF i >= option.value_count THEN << >>
    ELSE <<(IF option.only_number THEN " N" ELSE " V")>> \o ToDecimal(i + 1)
         \o ValueSlots(option, i + 1)

OptionText(option) ==
    <<" [">>
    \o (IF option.short_name = EmptyString THEN option.name
        ELSE option.short_name \o <<"|">> \o option.name)
    \o ValueSlots(option, 0)
    \o <<"]">>

RECURSIVE OptionsText(_)
OptionsText(options) ==
    IF options = << >> THEN << >>
    ELSE OptionText(options[1]) \o OptionsText(Tail(options))

\* UsageInfo showing only the options the last Parse bound
UsageInfoOfBound ==
    <<"Usage: ">>
    \o (IF app_path_ # EmptyString THEN app_path_ ELSE <<"command">>)
    \o ArgumentsText(all_arguments_)
    \o OptionsText(SortByIndex(DOMAIN all_options_ \cap DOMAIN cur_values_))

\* the text UsageInfo() returns, a sequence of characters and literals
UsageInfo ==
    <<"Usage: ">>
    \o (IF app_path_ # EmptyString THEN app_path_ ELSE <<"command">>)
    \o ArgumentsText(all_arguments_)
    \o OptionsText(SortByIndex(DOMAIN all_options_))

MaxUsageSeen == 2

CallUsageInfo ==
    /\ proc = "running"
    /\ Len(usage_seen) < MaxUsageSeen
    /\ usage_seen' = Append(usage_seen,
           [schema |-> schema, app_path |-> app_path_, parses |-> parses,
            text |-> UsageInfo])
    /\ ret' = RetText(UsageInfo)
    /\ last_op' = "UsageInfo"
    /\ diag' = "none"
    /\ call' = NoCall
    /\ UNCHANGED <<schema, parse_state>>

----------------------------------------------------------------------------
(* The calls the specifications make *)

MaxTokens == 4
MaxRepeatedTokens == 3

SeqsUpTo(S, n) == UNION {[1..k -> S] : k \in 0..n}

Prog == <<"p", "r", "o", "g">>
Other == <<"q">>
ArgvsOver(paths, tokens, n) ==
    {<<path>> \o t : path \in paths, t \in SeqsUpTo(tokens, n)}

A == <<"a">>
B2 == <<"b", "_", "2">>
N == <<"n">>
P == <<"p">>
Q == <<"q">>
LongX == <<"-", "-", "x">>
ShortX == <<"-", "x">>
LongN == <<"-", "-", "n">>
LongB == <<"-", "-", "b">>
ShortB == <<"-", "b">>
ShortU == <<"-", "u">>
Seven == <<"7">>
Ab == <<"a", "b">>
TooLong == [k \in 1..(MaxNameSize + 1) |-> "a"]

\* a program with positional arguments, a pack and one option, parsed once
PositionalArgumentCalls == {<<A, FALSE>>, <<N, TRUE>>}
PositionalPackCalls == {<<P, FALSE>>, <<Q, TRUE>>}
PositionalOptionCalls == {<<LongX, 1, ShortX, FALSE>>}
PositionalArgvs == ArgvsOver({Prog}, {Seven, Ab, ShortX}, MaxTokens)

NextPositional ==
    \/ parses = 0 /\ \E c \in PositionalArgumentCalls : AddArgument(c[1], c[2])
    \/ parses = 0 /\ \E c \in PositionalPackCalls : AddArgumentPack(c[1], c[2])
    \/ parses = 0 /\ \E c \in PositionalOptionCalls :
                        AddOption(c[1], c[2], c[3], c[4])
    \/ parses = 0 /\ \E av \in PositionalArgvs : Parse(av)

SpecPositional == Init /\ [][NextPositional]_vars

\* a program with options of arity 0, 1 and 2 and one argument, parsed once
OptionsArgumentCalls == {<<A, FALSE>>}
OptionsOptionCalls == {<<LongX, 1, ShortX, TRUE>>,
                       <<LongN, 2, EmptyString, FALSE>>,
                       <<LongB, 0, ShortB, FALSE>>}
OptionsArgvs ==
    ArgvsOver({Prog}, {LongX, ShortX, LongN, ShortB, Seven, Ab}, MaxTokens)

NextOptions ==
    \/ parses = 0 /\ \E c \in OptionsArgumentCalls : AddArgument(c[1], c[2])
    \/ parses = 0 /\ \E c \in OptionsOptionCalls :
                        AddOption(c[1], c[2], c[3], c[4])
    \/ parses = 0 /\ \E av \in OptionsArgvs : Parse(av)

SpecOptions == Init /\ [][NextOptions]_vars

\* a program that registers "--help" and "--usage" itself or not, parses
\* several times and looks values up
RepeatedArgumentCalls == {<<A, FALSE>>}
RepeatedOptionCalls == {<<HelpName, 0, EmptyString, FALSE>>,
                        <<UsageName, 1, ShortU, FALSE>>}
RepeatedArgvs ==
    {<< >>} \cup ArgvsOver({Prog}, {HelpName, UsageName, ShortU, Ab},
                           MaxRepeatedTokens)
RepeatedLookups == {A, UsageName, ShortU, Ab}

NextRepeated ==
    \/ parses = 0 /\ \E c \in RepeatedArgumentCalls : AddArgument(c[1], c[2])
    \/ parses = 0 /\ \E c \in RepeatedOptionCalls :
                        AddOption(c[1], c[2], c[3], c[4])
    \/ \E av \in RepeatedArgvs : Parse(av)
    \/ \E name \in RepeatedLookups : Lookup(name)

SpecRepeated == Init /\ [][NextRepeated]_vars

\* a program that asks for the usage text before, between and after Parse
\* calls made under two program paths
UsagePackCalls == {<<P, TRUE>>}
UsageOptionCalls == {<<LongX, 0, EmptyString, FALSE>>,
                     <<UsageName, 1, ShortU, TRUE>>}
UsageArgvs == ArgvsOver({Prog, Other}, {ShortU, Seven}, MaxRepeatedTokens)

NextUsage ==
    \/ parses = 0 /\ \E c \in UsagePackCalls : AddArgumentPack(c[1], c[2])
    \/ parses = 0 /\ \E c \in UsageOptionCalls :
                        AddOption(c[1], c[2], c[3], c[4])
    \/ \E av \in UsageArgvs : Parse(av)
    \/ CallUsageInfo

SpecUsage == Init /\ [][NextUsage]_vars

\* any calls in any order, with names that break each registration rule
ArgumentCalls ==
    {<<A, FALSE>>, <<B2, TRUE>>, <<EmptyString, FALSE>>,
     <<(<<"1", "a">>), FALSE>>, <<(<<"a", "-">>), FALSE>>,
     <<(<<"_", "a">>), FALSE>>, <<TooLong, FALSE>>, <<ShortX, FALSE>>}
PackCalls == {<<P, FALSE>>, <<A, TRUE>>, <<LongX, FALSE>>}
OptionCalls ==
    {<<LongX, 1, ShortX, FALSE>>,
     <<LongX, 0, EmptyString, FALSE>>,
     <<LongB, 0, ShortX, TRUE>>,
     <<LongB, 2, ShortB, TRUE>>,
     <<ShortX, 0, EmptyString, FALSE>>,
     <<LongN, 0, LongX, FALSE>>,
     <<LongN, 0, A, FALSE>>,
     <<LongN, 0, B2, FALSE>>,
     <<LongN, 1, ShortB, FALSE>>,
     <<A, 0, EmptyString, FALSE>>,
     <<(<<"-", "-">>), 0, EmptyString, FALSE>>,
     <<(<<"-", "-", "1">>), 0, EmptyString, FALSE>>}
Argvs == {<<Prog, Ab>>, <<Prog, ShortX, Seven>>,
          <<Prog, LongB, Seven, Ab, Seven>>}
Lookups == {ShortX}

Next ==
    \/ \E c \in ArgumentCalls : AddArgument(c[1], c[2])
    \/ \E c \in PackCalls : AddArgumentPack(c[1], c[2])
    \/ \E c \in OptionCalls : AddOption(c[1], c[2], c[3], c[4])
    \/ \E av \in Argvs : Parse(av)
    \/ \E name \in Lookups : Lookup(name)

Spec == Init /\ [][Next]_vars

----------------------------------------------------------------------------
(* What the claims speak of, stated without the loops of Parse *)

\* the last call was a Parse that returned
Succeeded == last_op = "Parse" /\ proc = "running"

\* the last call was a Parse that got as far as the scan
Scanned == last_op = "Parse" /\ Len(argv) >= 1 /\ proc # "exit(0)"

\* the tokens after the program path
Tokens == Tail(argv)

\* the registered options a token names, by long name or by alias
NamedBy(tok) ==
    {o \in DOMAIN all_options_ :
        \/ tok = o
        \/ all_options_[o].short_name # EmptyString
           /\ tok = all_options_[o].short_name}

NamedOption(tok) == CHOOSE o \in NamedBy(tok) : TRUE

ArityAt(args, k) == all_options_[NamedOption(args[k])].value_count

\* token k is an option start: it names an option and lies in no value
\* window of an earlier start
RECURSIVE IsStart(_, _)
InWindow(args, k) ==
    \E s \in 1..(k - 1) : IsStart(args, s) /\ k <= s + ArityAt(args, s)
IsStart(args, k) == NamedBy(args[k]) # {} /\ ~InWindow(args, k)

Starts(args) == {k \in 1..Len(args) : IsStart(args, k)}

\* the option starts at which o (long name) is matched
StartsOf(args, o) == {k \in Starts(args) : o \in NamedBy(args[k])}

\* the tokens that are neither a start nor in a window, in input order
RECURSIVE Loose(_, _)
Loose(args, k) ==
    IF k > Len(args) THEN << >>
    ELSE (IF IsStart(args, k) \/ InWindow(args, k) THEN << >>
          ELSE <<args[k]>>) \o Loose(args, k + 1)

\* the option starts in input order, each with its value window
RECURSIVE Windows(_, _)
Windows(args, k) ==
    IF k > Len(args) THEN << >>
    ELSE (IF IsStart(args, k)
          THEN <<[at |-> k, option |-> NamedOption(args[k]),
                  values |-> SubSeq(args, k + 1, k + ArityAt(args, k))]>>
          ELSE << >>) \o Windows(args, k + 1)

\* some start has fewer tokens after it than its arity
ShortWindow(args) ==
    \E s \in Starts(args) : s + ArityAt(args, s) > Len(args)

\* some numericOnly option has a value std::stoi rejects
BadOptionNumber(args) ==
    \E s \in Starts(args) :
        /\ all_options_[NamedOption(args[s])].only_number
        /\ \E k \in (s + 1)..(s + ArityAt(args, s)) :
              k <= Len(args) /\ ~StoiOk(args[k])

OptionDiagnostics == {"option value require number", "option value count"}

\* the last capture of option o in the scan's record
LastCapture(o) ==
    LET at == {k \in 1..Len(captures) : captures[k].option = o}
        last == CHOOSE k \in at : \A m \in at : m <= k
    IN captures[last]

----------------------------------------------------------------------------
(* C1 *)

\* C1: when an option occurs as an option start more than once in one Parse
\* token list, the values bound to it after Parse are exactly the values
\* its last occurrence captured, arity-many of them.
C1_LastOccurrenceWins ==
    Succeeded =>
        \A o \in DOMAIN all_options_ :
            StartsOf(Tokens, o) # {} =>
                /\ ValueOf(o).values_ = LastCapture(o).values
                /\ Len(ValueOf(o).values_) = all_options_[o].value_count

----------------------------------------------------------------------------
(* C5 *)

\* C5: a token that names a registered option outside every value window
\* starts that option, which captures exactly the next arity-many tokens,
\* whatever they are; every other token outside a window is positional, in
\* input order; too few tokens after a start, or a value of a numericOnly
\* option that is no integer, is a fatal exit.
C5_ScanCapturesWindows ==
    Scanned =>
        IF ShortWindow(Tokens) \/ BadOptionNumber(Tokens)
        THEN proc = "exit(-1)" /\ diag \in OptionDiagnostics
        ELSE /\ diag \notin OptionDiagnostics
             /\ parsed_arguments = Loose(Tokens, 1)
             /\ captures = Windows(Tokens, 1)

\* C5 witness: an option of arity 2 has captured two tokens that are
\* themselves registered names, and a positional token follows.
C5_Witness ==
    /\ Succeeded
    /\ \E k \in 1..Len(captures) :
          /\ Len(captures[k].values) = 2
          /\ \A v \in 1..2 : NamedBy(captures[k].values[v]) # {}
    /\ parsed_arguments # << >>

----------------------------------------------------------------------------
(* C8 *)

\* C8: after a successful Parse, lookup of a registered option is valid iff
\* the option occurred as an option start (long or short form); a matched
\* option of arity 0 is valid with size 0; lookup under its short alias has
\* the same validity and the same ordered values.
C8_OptionLookup ==
    Succeeded =>
        \A o \in DOMAIN all_options_ :
            LET started == StartsOf(Tokens, o) # {}
                short_name == all_options_[o].short_name
            IN /\ ValueOf(o).valid_ <=> started
               /\ started /\ all_options_[o].value_count = 0
                      => Len(ValueOf(o).values_) = 0
               /\ short_name # EmptyString =>
                      /\ ValueOf(short_name).valid_ = ValueOf(o).valid_
                      /\ ValueOf(short_name).values_ = ValueOf(o).values_

\* C8 witness: in one successful Parse a zero-arity option was matched by
\* its alias, an option with a value was matched, and a third registered
\* option was absent.
C8_Witness ==
    /\ Succeeded
    /\ LongB \in DOMAIN all_options_ /\ LongX \in DOMAIN all_options_
    /\ LongN \in DOMAIN all_options_
    /\ \E k \in Starts(Tokens) : Tokens[k] = ShortB
    /\ ValueOf(LongB).valid_ /\ ValueOf(ShortB).values_ = << >>
    /\ ValueOf(ShortX).values_ = <<Seven>>
    /\ ~ValueOf(LongN).valid_

----------------------------------------------------------------------------
(* C2, C3, C4: the positional values *)

PackIndex ==
    CHOOSE i \in 1..Len(all_arguments_) : all_arguments_[i].is_package

\* the positional tokens Argument i stands for, by the rule of the spec:
\* one each in declared order, the pack taking P - (D - 1) at its slot
TokensFor(i) ==
    LET D == Len(all_arguments_)
        Pn == Len(parsed_arguments)
    IN IF ~have_argument_pack_ THEN <<parsed_arguments[i]>>
       ELSE IF i = PackIndex
       THEN SubSeq(parsed_arguments, i, i + Pn - D)
       ELSE <<parsed_arguments[IF i < PackIndex THEN i ELSE i + Pn - D]>>

\* what lookup of Argument i holds, as a list of tokens
BoundTokens(i) ==
    LET v == ValueOf(all_arguments_[i].name)
    IN IF all_arguments_[i].is_package THEN v.values_ ELSE <<v.value_>>

RECURSIVE BoundFrom(_)
BoundFrom(i) ==
    IF i > Len(all_arguments_) THEN << >>
    ELSE BoundTokens(i) \o BoundFrom(i + 1)

\* C2: with a pack declared, a successful Parse gives each non-pack
\* Argument exactly one positional token and the pack exactly P - (D - 1)
\* consecutive ones at its declared slot; the bound values concatenated in
\* declaration order are the positional token list.
C2_PackAssignment ==
    Succeeded /\ have_argument_pack_ =>
        /\ \A i \in 1..Len(all_arguments_) :
              LET v == ValueOf(all_arguments_[i].name)
              IN IF i = PackIndex
                 THEN /\ v.valid_
                      /\ v.values_ = TokensFor(i)
                      /\ Len(v.values_) =
                            Len(parsed_arguments) - (Len(all_arguments_) - 1)
                 ELSE /\ v.values_ = << >>
                      /\ <<v.value_>> = TokensFor(i)
        /\ BoundFrom(1) = parsed_arguments

\* C2 witness: three Arguments with the pack declared in the middle, four
\* positional tokens, and the pack holds two of them.
C2_Witness ==
    /\ Succeeded /\ have_argument_pack_
    /\ Len(all_arguments_) = 3 /\ PackIndex = 2
    /\ Len(parsed_arguments) = 4
    /\ Len(ValueOf(all_arguments_[2].name).values_) = 2
    /\ ValueOf(all_arguments_[3].name).value_ = parsed_arguments[4]

NumberDiagnostics == {"argument value require number",
                      "argument pack value require number"}

\* C3: Parse succeeds only if every positional token passes the numeric
\* check of the Argument it is bound to, and a numeric failure is reported
\* only when some token fails the check of its own Argument.
C3_NumericCheckPerArgument ==
    /\ Succeeded =>
          \A i \in 1..Len(all_arguments_) :
              all_arguments_[i].only_number =>
                  \A k \in 1..Len(BoundTokens(i)) : StoiOk(BoundTokens(i)[k])
    /\ last_op = "Parse" /\ diag \in NumberDiagnostics =>
          \E i \in 1..Len(all_arguments_) :
              /\ all_arguments_[i].only_number
              /\ \E k \in 1..Len(TokensFor(i)) : ~StoiOk(TokensFor(i)[k])

CountDiagnostics == {"argument count must be", "argument count at least",
                     "argument pack value count at least: 1"}

\* C4: with P positional tokens collected and D Arguments declared: without
\* a pack Parse exits fatally unless P = D; with a pack it exits fatally
\* whenever P <= D - 1 and passes the count check whenever P >= D.
C4_CountCheck ==
    Scanned /\ diag \notin OptionDiagnostics =>
        LET D == Len(all_arguments_)
            Pn == Len(parsed_arguments)
        IN IF ~have_argument_pack_
           THEN IF Pn # D
                THEN proc = "exit(-1)" /\ diag = "argument count must be"
                ELSE diag \notin CountDiagnostics
           ELSE IF Pn <= D - 1
                THEN proc = "exit(-1)"
                ELSE diag \notin CountDiagnostics

\* C4 witness: a pack and two other Arguments are declared, exactly two
\* positional tokens were collected, and Parse exited because the pack
\* would hold no value.
C4_Witness ==
    /\ last_op = "Parse" /\ have_argument_pack_
    /\ Len(all_arguments_) = 3 /\ Len(parsed_arguments) = 2
    /\ proc = "exit(-1)"
    /\ diag = "argument pack value count at least: 1"

----------------------------------------------------------------------------
(* C6 *)

\* C6: UsageInfo() depends on the Schema only: two calls made with the same
\* Schema return the same text, whatever Parse calls were made before them.
C6_UsageOfSchemaOnly ==
    \A u \in 1..Len(usage_seen) : \A w \in 1..Len(usage_seen) :
        usage_seen[u].schema = usage_seen[w].schema
            => usage_seen[u].text = usage_seen[w].text

\* C6 as amended: UsageInfo() depends on the Schema and on the program path
\* the latest Parse stored: two calls made with the same Schema and the same
\* stored path return the same text, whatever else Parse did in between.
C6_UsageOfSchemaAndPath ==
    \A u \in 1..Len(usage_seen) : \A w \in 1..Len(usage_seen) :
        /\ usage_seen[u].schema = usage_seen[w].schema
        /\ usage_seen[u].app_path = usage_seen[w].app_path
        => usage_seen[u].text = usage_seen[w].text

\* C6 witness: UsageInfo() was called twice with the same Schema, which has
\* an option, and the same stored path; Parse was called in between and the
\* second call saw values the first one did not.
C6_Witness ==
    /\ Len(usage_seen) = 2
    /\ usage_seen[1].schema = usage_seen[2].schema
    /\ usage_seen[1].app_path = usage_seen[2].app_path
    /\ usage_seen[1].parses = 1 /\ usage_seen[2].parses = 2
    /\ last_op = "UsageInfo"
    /\ DOMAIN all_options_ # {}
    /\ ever_bound # DOMAIN cur_values_

----------------------------------------------------------------------------
(* C7 *)

\* the names a successful Parse of argv binds
BoundByParse ==
    ArgumentNames
    \cup {o \in DOMAIN all_options_ : StartsOf(Tokens, o) # {}}
    \cup {all_options_[o].short_name :
            o \in {x \in DOMAIN all_options_ :
                      /\ StartsOf(Tokens, x) # {}
                      /\ all_options_[x].short_name # EmptyString}}

\* C7: after any sequence of successful Parse calls the store holds exactly
\* the bindings of the most recent Parse, so a name an earlier Parse bound
\* and the latest did not looks up as the invalid empty Value; a lookup
\* returns the invalid Value for a name the store does not hold, ends
\* without error and leaves the store as it was.
C7_StoreOfLatestParse ==
    [][/\ last_op' = "Parse" /\ proc' = "running" =>
            /\ DOMAIN cur_values_' = BoundByParse'
            /\ \A name \in ever_bound' \ BoundByParse' :
                  ValueOf(name)' = InvalidValue
       /\ last_op' = "operator[]" =>
            /\ cur_values_' = cur_values_
            /\ proc' = "running"
            /\ ret'.kind = "Value"
            /\ ret'.name \notin DOMAIN cur_values_ => ret'.v = InvalidValue
            /\ ret'.name \in DOMAIN cur_values_
                  => ret'.v = cur_values_[ret'.name]
      ]_vars

\* C7 witness: a second Parse succeeded and an option an earlier Parse had
\* bound is not in the store any more.
C7_Witness ==
    /\ Succeeded /\ parses >= 2
    /\ \E o \in DOMAIN all_options_ :
          o \in ever_bound /\ o \notin DOMAIN cur_values_

----------------------------------------------------------------------------
(* C9 *)

\* C9: Parse ends the process with status 0 through the help (usage)
\* shortcut iff the arguments after the program path are exactly the one
\* token "--help" ("--usage") and no option of that long name is
\* registered; when one is registered the token is matched as that option
\* by the scan.
C9_HelpUsageShortcut ==
    last_op = "Parse" =>
        LET lone(name) == Len(argv) = 2 /\ argv[2] = name
            scanned_as(name) == /\ captures # << >>
                                /\ captures[1].at = 1
                                /\ captures[1].option = name
        IN /\ proc = "exit(0)" /\ diag = "HelpInfo"
                <=> lone(HelpName) /\ HelpName \notin DOMAIN all_options_
           /\ proc = "exit(0)" /\ diag = "UsageInfo"
                <=> lone(UsageName) /\ UsageName \notin DOMAIN all_options_
           /\ proc = "exit(0)" => diag \in {"HelpInfo", "UsageInfo"}
           /\ lone(HelpName) /\ HelpName \in DOMAIN all_options_
                => scanned_as(HelpName)
           /\ lone(UsageName) /\ UsageName \in DOMAIN all_options_
                => scanned_as(UsageName)

\* C9 witness: the lone token "--help" ended Parse with status 0 through
\* the help shortcut, in a Schema that registers "--usage" but not "--help".
C9_Witness ==
    /\ last_op = "Parse"
    /\ proc = "exit(0)" /\ diag = "HelpInfo"
    /\ argv = <<Prog, HelpName>>
    /\ UsageName \in DOMAIN all_options_
    /\ HelpName \notin DOMAIN all_options_

----------------------------------------------------------------------------
(* C10 *)

\* C10: after any sequence of registration calls the Schema is well formed:
\* argument names are pairwise distinct, at most one Argument is a pack and
\* have_argument_pack_ is set exactly when one exists, option long names are
\* pairwise distinct, and each registered short name maps to exactly one
\* registered option, whose short name it is.
C10_SchemaWellFormed ==
    LET args == 1..Len(all_arguments_)
        packs == {i \in args : all_arguments_[i].is_package}
        longs == DOMAIN all_options_
        shorts == DOMAIN short_name_to_name_of_option_
    IN /\ \A i \in args : \A j \in args :
              all_arguments_[i].name = all_arguments_[j].name => i = j
       /\ Cardinality(packs) <= 1
       /\ have_argument_pack_ <=> packs # {}
       /\ \A o \in longs : \A x \in longs :
              all_options_[o].name = all_options_[x].name => o = x
       /\ \A o \in longs : all_options_[o].name = o
       /\ \A s \in shorts :
              /\ short_name_to_name_of_option_[s] \in longs
              /\ {o \in longs : all_options_[o].short_name = s}
                    = {short_name_to_name_of_option_[s]}
       /\ \A o \in longs :
              all_options_[o].short_name # EmptyString
                  => all_options_[o].short_name \in shorts

\* C10 witness: with a pack, another Argument and two aliased options
\* registered, a registration has just failed.
C10_Witness ==
    /\ have_argument_pack_ /\ Len(all_arguments_) = 2
    /\ Cardinality(DOMAIN all_options_) = 2
    /\ Cardinality(DOMAIN short_name_to_name_of_option_) = 2
    /\ last_op = "AddOption" /\ ret = RetBool(FALSE)
    /\ diag = "AddOptionFailed: short name exist"

----------------------------------------------------------------------------
(* C11 *)

\* a valid identifier: non-empty, a letter first, then letters, digits
\* and "_"
IsIdentifier(s) ==
    /\ s # << >>
    /\ s[1] \in Lower \cup Upper
    /\ \A k \in 1..Len(s) : s[k] \in Lower \cup Upper \cup Digit \cup {"_"}

\* s without its first n characters
After(s, n) == [k \in 1..(Len(s) - n) |-> s[k + n]]

\* the constraints on each registration call, in the state it is made in
ArgumentAccepted(c) ==
    /\ IsIdentifier(c.name) /\ Len(c.name) <= MaxNameSize
    /\ \A k \in 1..Len(all_arguments_) : all_arguments_[k].name # c.name

PackAccepted(c) == ~have_argument_pack_ /\ ArgumentAccepted(c)

LongNameAccepted(c) ==
    /\ c.name \notin DOMAIN all_options_
    /\ Len(c.name) \in MinOptionNameSize..MaxNameSize
    /\ c.name[1] = "-" /\ c.name[2] = "-"
    /\ IsIdentifier(After(c.name, 2))

ShortNameAccepted(c) ==
    \/ c.short_name = << >>
    \/ /\ c.short_name \notin DOMAIN short_name_to_name_of_option_
       /\ Len(c.short_name) \in MinShortNameSize..MaxShortNameSize
       /\ c.short_name[1] = "-"
       /\ IsIdentifier(After(c.short_name, 1))

OptionAccepted(c) == LongNameAccepted(c) /\ ShortNameAccepted(c)

\* C11: a registration call returns true exactly when its constraints hold
\* in the state it is made in (a valid identifier of at most 32 characters
\* is accepted by AddArgument the first time and refused the second), a
\* successful call registers what it was given, and a refused
\* AddArgument, AddArgumentPack or AddOption returns false and leaves the
\* argument list, have_argument_pack_, the option table and the alias
\* table as they were; an AddOption refused for its short name registers
\* neither the long name nor the alias.
C11_RegistrationResult ==
    [][/\ last_op' \in {"AddArgument", "AddArgumentPack", "AddOption"} =>
            /\ ret'.kind = "bool"
            /\ ~ret'.b => schema' = schema
            /\ proc' = "running"
       /\ last_op' = "AddArgument" =>
            /\ ret'.b <=> ArgumentAccepted(call')
            /\ ret'.b =>
                  /\ all_arguments_' = Append(all_arguments_,
                        [name |-> call'.name,
                         only_number |-> call'.only_number,
                         is_package |-> FALSE])
                  /\ UNCHANGED <<have_argument_pack_, all_options_,
                                 short_name_to_name_of_option_>>
       /\ last_op' = "AddArgumentPack" =>
            /\ ret'.b <=> PackAccepted(call')
            /\ ret'.b =>
                  /\ all_arguments_' = Append(all_arguments_,
                        [name |-> call'.name,
                         only_number |-> call'.only_number,
                         is_package |-> TRUE])
                  /\ have_argument_pack_'
                  /\ UNCHANGED <<all_options_,
                                 short_name_to_name_of_option_>>
       /\ last_op' = "AddOption" =>
            /\ ret'.b <=> OptionAccepted(call')
            /\ LongNameAccepted(call') /\ ~ShortNameAccepted(call') =>
                  /\ call'.name \notin DOMAIN all_options_'
                  /\ call'.short_name
                        \in DOMAIN short_name_to_name_of_option_'
                     => short_name_to_name_of_option_'[call'.short_name]
                           # call'.name
            /\ ret'.b =>
                  /\ DOMAIN all_options_' =
                        DOMAIN all_options_ \cup {call'.name}
                  /\ \A o \in DOMAIN all_options_ :
                        all_options_'[o] = all_options_[o]
                  /\ all_options_'[call'.name] =
                        [name |-> call'.name,
                         short_name |-> call'.short_name,
                         value_count |-> call'.value_count,
                         only_number |-> call'.only_number,
                         index |-> Cardinality(DOMAIN all_options_)]
                  /\ DOMAIN short_name_to_name_of_option_' =
                        DOMAIN short_name_to_name_of_option_
                        \cup (IF call'.short_name = << >> THEN {}
                              ELSE {call'.short_name})
                  /\ \A a \in DOMAIN short_name_to_name_of_option_' :
                        short_name_to_name_of_option_'[a] =
                            IF a = call'.short_name THEN call'.name
                            ELSE short_name_to_name_of_option_[a]
                  /\ UNCHANGED <<have_argument_pack_, all_arguments_>>
      ]_vars

\* C11 witness: with an Argument and an aliased option registered, an
\* AddOption call with a new, well-formed long name has just been refused
\* for its short name, and the long name is not in the option table.
C11_Witness ==
    /\ last_op = "AddOption" /\ ret = RetBool(FALSE)
    /\ diag \in {"AddOptionFailed: short name exist",
                 "AddOptionFailed: short name"}
    /\ LongNameAccepted(call) /\ ~ShortNameAccepted(call)
    /\ call.name \notin DOMAIN all_options_
    /\ all_arguments_ # << >>
    /\ short_name_to_name_of_option_ # EmptyMap

----------------------------------------------------------------------------
(* C12 *)

\* C12: a Parse call, whatever its tokens and however it ends, leaves the
\* Schema as it was: the argument list, have_argument_pack_, the option
\* table (its names and, for each, arity, flags, short name and
\* registration index) and the alias table are the same after the call as
\* before it.  Of the parser's data only cur_values_ and app_path_ may
\* differ.
C12_ParseKeepsSchema ==
    [][parses' # parses =>
          /\ last_op' = "Parse"
          /\ all_arguments_' = all_arguments_
          /\ have_argument_pack_' = have_argument_pack_
          /\ DOMAIN all_options_' = DOMAIN all_options_
          /\ \A o \in DOMAIN all_options_ :
                all_options_'[o] = all_options_[o]
          /\ DOMAIN short_name_to_name_of_option_' =
                DOMAIN short_name_to_name_of_option_
          /\ \A a \in DOMAIN short_name_to_name_of_option_ :
                short_name_to_name_of_option_'[a] =
                    short_name_to_name_of_option_[a]
      ]_vars

\* C12 witness: a Parse succeeded whose tokens hold an option start matched
\* by its alias "-x" and the token "--n", which names no registered option
\* and was bound to the Argument; the store and the program path are set.
C12_Witness ==
    /\ Succeeded
    /\ LongN \notin DOMAIN all_options_
    /\ Cardinality(DOMAIN all_options_) = 2
    /\ \E k \in Starts(Tokens) : Tokens[k] = ShortX
    /\ ValueOf(A).value_ = LongN
    /\ ValueOf(LongX).values_ = <<Seven>>
    /\ app_path_ = Prog

----------------------------------------------------------------------------
(* C13 *)

ShortNames == DOMAIN short_name_to_name_of_option_

\* the keys a successful Parse binds for the options it matched
OptionKeys ==
    DOMAIN parsed_options
    \cup {all_options_[o].short_name :
            o \in {x \in DOMAIN parsed_options :
                      all_options_[x].short_name # EmptyString}}

\* C13: in every Schema the registration calls can build, argument names,
\* option long names and short names are pairwise disjoint sets (a long
\* name has "-" as its second character, a short name "-" first and a
\* letter second, an argument name a letter first); so after a successful
\* Parse every Argument still holds the value bound from its positional
\* tokens, every matched option holds its own captures under its long name
\* and under its short name, and the store has one key for each of them.
C13_KeySpacesDisjoint ==
    /\ ArgumentNames \cap DOMAIN all_options_ = {}
    /\ ArgumentNames \cap ShortNames = {}
    /\ ShortNames \cap DOMAIN all_options_ = {}
    /\ \A n \in ArgumentNames : n[1] \in Lower \cup Upper
    /\ \A o \in DOMAIN all_options_ : o[1] = "-" /\ o[2] = "-"
    /\ \A a \in ShortNames : a[1] = "-" /\ a[2] \in Lower \cup Upper
    /\ Succeeded =>
          /\ \A i \in 1..Len(all_arguments_) :
                ValueOf(all_arguments_[i].name) =
                    IF all_arguments_[i].is_package
                    THEN MultiValue(TokensFor(i))
                    ELSE SingleValue(TokensFor(i)[1])
          /\ \A o \in DOMAIN parsed_options :
                /\ ValueOf(o) = MultiValue(parsed_options[o])
                /\ all_options_[o].short_name # EmptyString =>
                      ValueOf(all_options_[o].short_name) =
                          MultiValue(parsed_options[o])
          /\ DOMAIN cur_values_ = ArgumentNames \cup OptionKeys
          /\ Cardinality(DOMAIN cur_values_) =
                Len(all_arguments_) + Cardinality(OptionKeys)
          /\ Cardinality(OptionKeys) =
                Cardinality(DOMAIN parsed_options)
                + Cardinality({o \in DOMAIN parsed_options :
                                  all_options_[o].short_name # EmptyString})

\* C13 witness: a Parse succeeded that bound a pack, two more Arguments and
\* an option under its long name and its short name, five keys in all.
C13_Witness ==
    /\ Succeeded
    /\ have_argument_pack_ /\ Len(all_arguments_) = 3
    /\ \E o \in DOMAIN parsed_options :
          /\ all_options_[o].short_name # EmptyString
          /\ all_options_[o].short_name \in DOMAIN cur_values_
    /\ Cardinality(DOMAIN cur_values_) = 5

====
